---------------------------- MODULE Spec2Model ----------------------------
(***************************************************************************)
(* Model of TA-eclecticiq/bin/create_sighting.py: the persistent REST      *)
(* handler Send.handle, which reads accounts.conf and settings.conf, fills *)
(* the module-level SIGHTING_SCHEMA template from the submitted form and   *)
(* sends it with one HTTP POST to <url>/entities.                          *)
(*                                                                         *)
(* Python values are modelled as follows.  A str of the form is a sequence *)
(* of one-character strings (so that list(s) and "".join(...) can be       *)
(* computed); a dict is a function whose DOMAIN is its key set; the        *)
(* outcome of a call is a record [kind |-> "return", ...] or               *)
(* [kind |-> "raise", exc |-> <exception class>, ...].                     *)
(***************************************************************************)
EXTENDS Integers, Sequences, FiniteSets, TLC

VARIABLES
    SIGHTING_SCHEMA,   \* the module-level template dict, mutated in place
    found,             \* SIGHTING_SCHEMA as the last call found it (line 260)
    accounts_conf,     \* local/accounts.conf: [exists, stanzas]
    settings_conf,     \* local/settings.conf: [exists, stanzas]
    invocations,       \* number of calls of Send.handle so far
    form,              \* in_dict["form"] of the last call
    remote,            \* what the network/remote service did in the last call
    requests_made,     \* outbound requests.request calls of the last call
    log,               \* log records written by the last call
    result             \* how the last call of Send.handle ended

vars == <<SIGHTING_SCHEMA, found, accounts_conf, settings_conf, invocations, form,
          remote, requests_made, log, result>>

-----------------------------------------------------------------------------
(* Bounds of the model *)

MaxInvocations == 2     \* calls of handle in one process

-----------------------------------------------------------------------------
(* Names imported from constants.* (lines 18-66) *)

CREDS == "creds"
PROXY == "proxy"
PROXY_PASSWORD == "proxy_password"
URL == "url"
SIGHTING_VALUE == "sighting_value"
SIGHTING_DESC == "sighting_desc"
CONFIDENCE_LEVEL == "confidence_level"
SIGHTING_TITLE == "sighting_title"
SIGHTING_TAGS == "sighting_tags"
SIGHTING_TYPE == "sighting_type"

CREDS_NOT_FOUND == "CREDS_NOT_FOUND"
COULD_NOT_CREATE_SIGHTING == "COULD_NOT_CREATE_SIGHTING"
SIGHTING_CREATED == "SIGHTING_CREATED"
REQUEST_FAILED == "REQUEST_FAILED"
API_ERROR == "API_ERROR"
EVENTS_RESPONSE_ERROR_CODE == "EVENTS_RESPONSE_ERROR_CODE"

\* Optional values: None is the empty tuple, any other value v is <<v>>
None == <<>>
Some(v) == <<v>>
Val(o) == o[1]

EmptyDict == [k \in {} |-> ""]

\* d[k] = v on a dict
DictSet(d, k, v) == [x \in (DOMAIN d) \cup {k} |-> IF x = k THEN v ELSE d[x]]

\* an outcome of a call: a returned value or a raised exception
Return(v) == [kind |-> "return", value |-> v]
Raise(e) == [kind |-> "raise", exc |-> e]

\* str(n).startswith(d) for a positive status code n and a digit d
RECURSIVE LeadingDigit(_)
LeadingDigit(n) == IF n < 10 THEN n ELSE LeadingDigit(n \div 10)

StartsWith(n, d) == LeadingDigit(n) = d

\* template.format(args): the template and the values put into it
Format(template, args) == <<template>> \o args

-----------------------------------------------------------------------------
(* Clock and time formatting.  An instant is [date, time_of_day]; Clock   *)
(* lists, in increasing order, the instants datetime.utcnow() may return:  *)
(* the last microsecond of one UTC day and the first of the next.          *)

Clock ==
    << [date |-> "2024-01-01", time_of_day |-> "23:59:59.999999"],
       [date |-> "2024-01-02", time_of_day |-> "00:00:00.000000"] >>

\* datetime.datetime.utcnow().date() (line 259)
Date(t) == t.date

\* datetime.datetime(today.year, today.month, today.day, 0, 0, 0) (line 282)
Midnight(d) == [date |-> d, time_of_day |-> "00:00:00.000000"]

\* datetime.datetime.strftime(t, TIME_FORMAT): date, "T", time of day, "Z"
strftime(t) == <<t.date, "T", t.time_of_day, "Z">>

-----------------------------------------------------------------------------
(* Send.parse_form_data, lines 103-113 *)

RECURSIVE ParseLoop(_, _, _)
ParseLoop(form_data, i, parsed) ==
    IF i > Len(form_data) THEN parsed
    ELSE ParseLoop(form_data, i + 1,
                   DictSet(parsed, form_data[i][1], form_data[i][2]))

parse_form_data(form_data) == ParseLoop(form_data, 1, EmptyDict)

\* payload.get(key)
Get(d, key) == IF key \in DOMAIN d THEN Some(d[key]) ELSE None

\* Python truth of an optional str / dict: None, "" and {} are false
Truthy(o) == o # None /\ Val(o) # <<>>

-----------------------------------------------------------------------------
(* Send.create_response, lines 186-201 *)

\* create_response answering 200 whatever status it is given
create_response_always_200(status, message) ==
    [payload |-> message,
     status  |-> 200,
     headers |-> [ContentType |-> "text/plain"]]

create_response(status, message) ==
    [payload |-> message,
     status  |-> status,
     headers |-> [ContentType |-> "text/plain"]]

-----------------------------------------------------------------------------
(* Send.get_url, lines 203-222.  A conf file is [exists, stanzas]: whether *)
(* os.path.exists holds and the <<name, content>> pairs readConfFile gives *)

RECURSIVE AccountName(_, _, _)
AccountName(localconf, i, account_name) ==
    IF i > Len(localconf) THEN account_name
    ELSE AccountName(localconf, i + 1,
                     IF localconf[i][1] # "default"
                     THEN Some(localconf[i][1]) ELSE account_name)

RECURSIVE ApiKeyConf(_, _, _)
ApiKeyConf(localconf, i, apikeyconf) ==
    IF i > Len(localconf) THEN apikeyconf
    ELSE ApiKeyConf(localconf, i + 1,
                    DictSet(apikeyconf, localconf[i][1], localconf[i][2]))

get_url(api_conf) ==
    IF ~api_conf.exists THEN Return(None)
    ELSE LET account_name == AccountName(api_conf.stanzas, 1, None)
             apikeyconf == ApiKeyConf(api_conf.stanzas, 1, EmptyDict)
         IN  IF account_name = None THEN Raise("UnboundLocalError")
             ELSE IF URL \notin DOMAIN apikeyconf[Val(account_name)]
                  THEN Raise("KeyError")
                  ELSE Return(Some(apikeyconf[Val(account_name)][URL]))

-----------------------------------------------------------------------------
(* Send.get_proxy, lines 224-237 *)

RECURSIVE ProxyLoop(_, _)
ProxyLoop(localsettingsconf, i) ==
    IF i > Len(localsettingsconf) THEN None
    ELSE IF localsettingsconf[i][1] = PROXY
         THEN Some(localsettingsconf[i][2])
         ELSE ProxyLoop(localsettingsconf, i + 1)

get_proxy(settings) ==
    IF ~settings.exists THEN None ELSE ProxyLoop(settings.stanzas, 1)

-----------------------------------------------------------------------------
(* utils.formatters.format_proxy_uri (imported at line 67): the proxy URI  *)
(* built from host, port and credentials                                   *)

format_proxy_uri(proxy) ==
    [host     |-> Get(proxy, "proxy_url"),
     port     |-> Get(proxy, "proxy_port"),
     username |-> Get(proxy, "proxy_username"),
     password |-> Get(proxy, PROXY_PASSWORD)]

-----------------------------------------------------------------------------
(* Send.send_request, lines 115-184.  net is what requests.request does:   *)
(* [kind |-> "response", status_code, content] or [kind |-> "exc", exc].   *)
(* The result is the call's outcome, the requests issued and the log.      *)

\* classes of requests.exceptions, by the except clause that catches them
IsConnectionError(e) == e \in {"ConnectionError"}
IsTimeout(e) == e \in {"ReadTimeout"}
IsRequestException(e) == e \in {"InvalidURL"}

\* Response.raise_for_status: HTTPError for 4xx and 5xx
raise_for_status(status_code) == 400 <= status_code /\ status_code < 600

\* proxies argument, lines 130-133
proxy_settings(proxy) ==
    IF Get(proxy, "proxy_enabled") = Some("1")
    THEN Some(format_proxy_uri(proxy))
    ELSE None

send_request(url, headers, proxy, sighting, net) ==
    IF proxy = None
    THEN \* None.get at line 130, before the try block
         [outcome |-> Raise("AttributeError"), requests |-> <<>>, log |-> <<>>]
    ELSE
    LET request == [method  |-> "post",
                    url     |-> url,
                    headers |-> headers,
                    data    |-> sighting,
                    verify  |-> TRUE,
                    timeout |-> 50,
                    proxies |-> proxy_settings(Val(proxy))]
    IN
    IF net.kind = "response"
    THEN IF raise_for_status(net.status_code)
         THEN \* except HTTPError, lines 145-164
              LET level == IF StartsWith(net.status_code, 5)
                           THEN "critical" ELSE "error"
              IN [outcome  |-> Raise("HTTPError"),
                  requests |-> <<request>>,
                  log      |-> << <<level, API_ERROR>>,
                                  <<level, EVENTS_RESPONSE_ERROR_CODE>> >>]
         ELSE [outcome  |-> Return(net),
               requests |-> <<request>>,
               log      |-> <<>>]
    ELSE IF IsConnectionError(net.exc) \/ IsTimeout(net.exc)
    THEN \* lines 165-170
         [outcome  |-> Raise(net.exc),
          requests |-> <<request>>,
          log      |-> << <<"error", API_ERROR>> >>]
    ELSE IF IsRequestException(net.exc)
    THEN \* lines 171-180: response is unbound when requests.request raised,
         \* so reading response.status_code at line 176 raises
         [outcome  |-> Raise("UnboundLocalError"),
          requests |-> <<request>>,
          log      |-> << <<"error", API_ERROR>> >>]
    ELSE \* lines 181-183
         [outcome  |-> Raise(net.exc),
          requests |-> <<request>>,
          log      |-> << <<"error", "traceback">> >>]

-----------------------------------------------------------------------------
(* Filling the template, lines 268-287.  The nested dict is flattened:     *)
(*   value, description, timestamp, confidence, title  data.data.<field>   *)
(*   type        data.data.security_control.type                          *)
(*   start_time  data.data.security_control.time.start_time               *)
(*   tags, ingest_time   data.meta.<field>                                 *)

\* list(s): the characters of a str, each a str of length one
List(s) == [i \in 1 .. Len(s) |-> <<s[i]>>]

\* "".join(parts)
RECURSIVE Join(_)
Join(parts) == IF parts = <<>> THEN <<>> ELSE Head(parts) \o Join(Tail(parts))

\* the assignments with the one of the title (line 274) left out
StepsWithoutTitle ==
    << [field |-> "value",       kind |-> "form",  key |-> SIGHTING_VALUE],
       [field |-> "description", kind |-> "form",  key |-> SIGHTING_DESC],
       [field |-> "timestamp",   kind |-> "time",  key |-> ""],
       [field |-> "confidence",  kind |-> "form",  key |-> CONFIDENCE_LEVEL],
       [field |-> "tags",        kind |-> "tags",  key |-> SIGHTING_TAGS],
       [field |-> "type",        kind |-> "form",  key |-> SIGHTING_TYPE],
       [field |-> "start_time",  kind |-> "today", key |-> ""],
       [field |-> "ingest_time", kind |-> "time",  key |-> ""] >>

\* the assignments in the order handle makes them
Steps ==
    << [field |-> "value",       kind |-> "form",  key |-> SIGHTING_VALUE],
       [field |-> "description", kind |-> "form",  key |-> SIGHTING_DESC],
       [field |-> "timestamp",   kind |-> "time",  key |-> ""],
       [field |-> "confidence",  kind |-> "form",  key |-> CONFIDENCE_LEVEL],
       [field |-> "title",       kind |-> "form",  key |-> SIGHTING_TITLE],
       [field |-> "tags",        kind |-> "tags",  key |-> SIGHTING_TAGS],
       [field |-> "type",        kind |-> "form",  key |-> SIGHTING_TYPE],
       [field |-> "start_time",  kind |-> "today", key |-> ""],
       [field |-> "ingest_time", kind |-> "time",  key |-> ""] >>

StepValue(step, payload, today, time) ==
    CASE step.kind = "form"  -> payload[step.key]
      [] step.kind = "tags"  -> << Join(List(payload[step.key])) >>
      [] step.kind = "time"  -> strftime(time)
      [] step.kind = "today" -> strftime(Midnight(today))

RECURSIVE FillFrom(_, _, _, _, _)
FillFrom(sighting, i, payload, today, time) ==
    IF i > Len(Steps) THEN [sighting |-> sighting, exc |-> None]
    ELSE IF Steps[i].key # "" /\ Steps[i].key \notin DOMAIN payload
         THEN [sighting |-> sighting, exc |-> Some("KeyError")]
         ELSE FillFrom([sighting EXCEPT ![Steps[i].field] =
                            StepValue(Steps[i], payload, today, time)],
                       i + 1, payload, today, time)

-----------------------------------------------------------------------------
(* json.loads(response.content) and content["data"]["id"], lines 298-299.  *)
(* A body is [json, doc]: whether it parses, and the parsed document as    *)
(* the optional value found at data.id                                     *)

created_id(content) ==
    IF ~content.json THEN Raise("JSONDecodeError")
    ELSE IF content.data_id = None THEN Raise("KeyError")
    ELSE Return(Val(content.data_id))

-----------------------------------------------------------------------------
(* Send.handle, lines 239-301.  The result is the outcome of the call, the *)
(* template as the call leaves it, the requests issued and the log.        *)

handle(schema, accounts, settings, in_form, t1, t2, net) ==
    LET received == << <<"info", "Request received.">> >>
        url == get_url(accounts)
    IN
    IF url.kind = "raise"
    THEN [outcome |-> url, schema |-> schema, requests |-> <<>>, log |-> received]
    ELSE
    LET proxy == get_proxy(settings)
        payload == parse_form_data(in_form)
        today == Date(t1)
        time == t2
        api_key == Get(payload, CREDS)
    IN
    IF ~Truthy(api_key)
    THEN [outcome  |-> Return(create_response(401, <<CREDS_NOT_FOUND>>)),
          schema   |-> schema,
          requests |-> <<>>,
          log      |-> received]
    ELSE
    LET proxy_pass == IF Truthy(Get(payload, "proxy_pass"))
                      THEN payload["proxy_pass"] ELSE <<>>
        proxy_arg == IF Truthy(proxy)
                     THEN Some(DictSet(Val(proxy), PROXY_PASSWORD, proxy_pass))
                     ELSE proxy
        filled == FillFrom(schema, 1, payload, today, time)
    IN
    IF filled.exc # None
    THEN [outcome  |-> Raise(Val(filled.exc)),
          schema   |-> filled.sighting,
          requests |-> <<>>,
          log      |-> received]
    ELSE
    LET headers == [Authorization |-> <<"Bearer", Val(api_key)>>]
        sent == IF url.value = None
                THEN \* None + "/entities" inside the try block, line 291
                     [outcome |-> Raise("TypeError"), requests |-> <<>>,
                      log |-> <<>>]
                ELSE send_request(<<Val(url.value), "/entities">>, headers,
                                  proxy_arg, filled.sighting, net)
    IN
    IF sent.outcome.kind = "raise"
    THEN \* except Exception as err, lines 293-294
         [outcome  |-> Return(create_response(500, <<sent.outcome.exc>>)),
          schema   |-> filled.sighting,
          requests |-> sent.requests,
          log      |-> received \o sent.log]
    ELSE
    LET response == sent.outcome.value IN
    IF ~StartsWith(response.status_code, 2)
    THEN [outcome  |-> Return(create_response(response.status_code,
                                              <<COULD_NOT_CREATE_SIGHTING>>)),
          schema   |-> filled.sighting,
          requests |-> sent.requests,
          log      |-> received \o sent.log \o << <<"info", REQUEST_FAILED>> >>]
    ELSE
    LET id == created_id(response.content) IN
    IF id.kind = "raise"
    THEN [outcome  |-> id,
          schema   |-> filled.sighting,
          requests |-> sent.requests,
          log      |-> received \o sent.log]
    ELSE
    LET message == Format(SIGHTING_CREATED, <<Val(url.value), id.value>>) IN
         [outcome  |-> Return(create_response(response.status_code, message)),
          schema   |-> filled.sighting,
          requests |-> sent.requests,
          log      |-> received \o sent.log \o << <<"info", SIGHTING_CREATED>> >>]

-----------------------------------------------------------------------------
(* Inputs of the model *)

\* the required form keys, in the order handle reads them
RequiredKeys ==
    <<SIGHTING_VALUE, SIGHTING_DESC, CONFIDENCE_LEVEL, SIGHTING_TITLE,
      SIGHTING_TAGS, SIGHTING_TYPE>>

\* two submissions' worth of field values; every field has its own text
Variants == {"1", "2"}

FieldText(key, variant) == <<key, "-", variant>>

\* the credential of a form: no pair, an empty value, or an API key
Credentials == {"absent", "empty", "key"}

CredPairs(cred) ==
    CASE cred = "absent" -> <<>>
      [] cred = "empty"  -> << <<CREDS, <<>> >> >>
      [] cred = "key"    -> << <<CREDS, <<"k", "e", "y">> >> >>

\* the form of one submission: the [key, value] pairs, without the key
\* `missing` ("" when no required key is missing); the second variant also
\* carries a proxy password
MakeForm(variant, missing, cred) ==
    SelectSeq([i \in 1 .. Len(RequiredKeys) |->
                  <<RequiredKeys[i], FieldText(RequiredKeys[i], variant)>>],
              LAMBDA pair : pair[1] # missing)
    \o CredPairs(cred)
    \o (IF variant = "2" THEN << <<"proxy_pass", <<"p", "w">> >> >> ELSE <<>>)

Forms ==
    { MakeForm(v, m, c) :
        v \in Variants,
        m \in {""} \cup {RequiredKeys[i] : i \in 1 .. Len(RequiredKeys)},
        c \in Credentials }

\* local/accounts.conf: missing, only the default stanza, or one account
AccountsConfs ==
    { [exists |-> FALSE, stanzas |-> <<>>],
      [exists |-> TRUE,  stanzas |-> << <<"default", EmptyDict>> >>],
      [exists |-> TRUE,
       stanzas |-> << <<"default", EmptyDict>>,
                      <<"eiq", [url |-> "https://eiq.example/api"]>> >>] }

ProxyStanza(enabled) ==
    [proxy_enabled  |-> enabled,
     proxy_url      |-> "proxy.example",
     proxy_port     |-> "8080",
     proxy_username |-> "user"]

\* local/settings.conf: missing, without a proxy stanza, proxy on or off
SettingsConfs ==
    { [exists |-> FALSE, stanzas |-> <<>>],
      [exists |-> TRUE,  stanzas |-> << <<"default", EmptyDict>> >>],
      [exists |-> TRUE,
       stanzas |-> << <<"default", EmptyDict>>, <<PROXY, ProxyStanza("1")>> >>],
      [exists |-> TRUE,
       stanzas |-> << <<"default", EmptyDict>>, <<PROXY, ProxyStanza("0")>> >>] }

\* bodies the remote service may answer with
CreatedBody == [json |-> TRUE,  data_id |-> Some("abc123")]
NoIdBody    == [json |-> TRUE,  data_id |-> None]
TextBody    == [json |-> FALSE, data_id |-> None]

StatusCodes == {100, 200, 201, 304, 404, 503}

\* what requests.request may do: answer, or raise
NetOutcomes ==
    { [kind |-> "response", status_code |-> c, content |-> b] :
        c \in {x \in StatusCodes : StartsWith(x, 2)},
        b \in {CreatedBody, NoIdBody, TextBody} }
    \cup
    { [kind |-> "response", status_code |-> c, content |-> TextBody] :
        c \in {x \in StatusCodes : ~StartsWith(x, 2)} }
    \cup
    { [kind |-> "exc", exc |-> e] :
        e \in {"ConnectionError", "ReadTimeout", "InvalidURL", "UnicodeError"} }

NotCalled == [kind |-> "not_called"]

\* the two clock readings of one call: the second is not before the first
ClockReadings ==
    { <<Clock[i], Clock[j]>> : i \in 1 .. Len(Clock), j \in 1 .. Len(Clock) }
    \ { <<Clock[i], Clock[j]>> : i \in 2 .. Len(Clock), j \in 1 .. 1 }

-----------------------------------------------------------------------------
(* The state machine *)

\* constants.sighting_right_click.SIGHTING_SCHEMA as imported (line 52)
SchemaTemplate ==
    [value       |-> <<>>,
     description |-> <<>>,
     timestamp   |-> <<>>,
     confidence  |-> <<>>,
     title       |-> <<>>,
     tags        |-> <<>>,
     type        |-> <<>>,
     start_time  |-> <<>>,
     ingest_time |-> <<>>]

Idle == [kind |-> "idle"]

Init ==
    /\ SIGHTING_SCHEMA = SchemaTemplate
    /\ found = SchemaTemplate
    /\ accounts_conf \in AccountsConfs
    /\ settings_conf \in SettingsConfs
    /\ invocations = 0
    /\ form = <<>>
    /\ remote = NotCalled
    /\ requests_made = <<>>
    /\ log = <<>>
    /\ result = Idle

\* whether this call of handle reaches requests.request
Calls(in_form, now) ==
    handle(SIGHTING_SCHEMA, accounts_conf, settings_conf, in_form,
           now[1], now[2], [kind |-> "exc", exc |-> "ConnectionError"]).requests
        # <<>>

\* one call of Send.handle by the REST framework
Handle ==
    /\ invocations < MaxInvocations
    /\ \E in_form \in Forms, now \in ClockReadings :
         \E net \in (IF Calls(in_form, now) THEN NetOutcomes ELSE {NotCalled}) :
           \E r \in {handle(SIGHTING_SCHEMA, accounts_conf, settings_conf,
                            in_form, now[1], now[2], net)} :
               /\ SIGHTING_SCHEMA' = r.schema
               /\ found' = SIGHTING_SCHEMA
               /\ invocations' = invocations + 1
               /\ form' = in_form
               /\ remote' = net
               /\ requests_made' = r.requests
               /\ log' = r.log
               /\ result' = r.outcome
               /\ UNCHANGED <<accounts_conf, settings_conf>>

Next == Handle

Spec == Init /\ [][Next]_vars

-----------------------------------------------------------------------------
(* Vocabulary of the properties, read off the state and the inputs only *)

\* a call of handle has ended
Invoked == invocations > 0

Returned == result.kind = "return"

\* the value the submitted form gives a key: its last pair wins
HasKey(key) == \E i \in 1 .. Len(form) : form[i][1] = key

FormField(key) ==
    LET last == CHOOSE i \in 1 .. Len(form) :
                    /\ form[i][1] = key
                    /\ \A j \in (i + 1) .. Len(form) : form[j][1] # key
    IN  form[last][2]

\* the form carries a non-empty credential
HasCredential == HasKey(CREDS) /\ FormField(CREDS) # <<>>

AllRequiredPresent == \A i \in 1 .. Len(RequiredKeys) : HasKey(RequiredKeys[i])

\* accounts.conf has a stanza other than default, and it holds a url
AccountStanzas ==
    { i \in 1 .. Len(accounts_conf.stanzas) :
        accounts_conf.stanzas[i][1] # "default" }

UrlConfigured ==
    /\ accounts_conf.exists
    /\ AccountStanzas # {}
    /\ \A i \in AccountStanzas : URL \in DOMAIN accounts_conf.stanzas[i][2]

\* settings.conf has a proxy stanza / one whose enabled flag is "1"
ProxyStanzas ==
    { i \in 1 .. Len(settings_conf.stanzas) :
        settings_conf.stanzas[i][1] = PROXY }

ProxyConfigured == settings_conf.exists /\ ProxyStanzas # {}

ProxyEnabled ==
    /\ ProxyConfigured
    /\ \A i \in ProxyStanzas :
         /\ "proxy_enabled" \in DOMAIN settings_conf.stanzas[i][2]
         /\ settings_conf.stanzas[i][2]["proxy_enabled"] = "1"

Posted == requests_made # <<>>

Is2xx(status) == 200 <= status /\ status <= 299

-----------------------------------------------------------------------------
(* Properties *)

\* C1: a call whose form has no credential value (key absent or value
\* empty) returns status 401 with the "credentials not found" message and
\* makes no outbound call, whatever the other fields and the two conf files.
C1_NoCredentialGives401 ==
    (Invoked /\ ~HasCredential) =>
        /\ Returned
        /\ result.value.status = 401
        /\ result.value.payload = <<CREDS_NOT_FOUND>>
        /\ ~Posted

\* C2: every call of handle ends by returning the normalized response
\* {payload, status, headers: Content-Type text/plain}; no exception escapes.
C2_AlwaysNormalizedResponse ==
    Invoked =>
        /\ Returned
        /\ DOMAIN result.value = {"payload", "status", "headers"}
        /\ result.value.headers = [ContentType |-> "text/plain"]

\* C3: for every remote answer whose status is not 2xx, handle returns the
\* remote status code with the generic "could not create sighting" message.
C3_RejectionKeepsRemoteStatus ==
    (Posted /\ remote.kind = "response" /\ ~Is2xx(remote.status_code)) =>
        /\ Returned
        /\ result.value.status = remote.status_code
        /\ result.value.payload = <<COULD_NOT_CREATE_SIGHTING>>

\* C4: handle returns a 2xx status only when the remote service answered
\* the one POST to <url>/entities with that same 2xx status, and then the
\* message is the "Sighting created" text built from the configured base
\* url and the id at data.id of the remote JSON body.
C4_SuccessOnlyFromRemoteSuccess ==
    (Invoked /\ Returned /\ Is2xx(result.value.status)) =>
        /\ Len(requests_made) = 1
        /\ remote.kind = "response"
        /\ remote.status_code = result.value.status
        /\ remote.content.json
        /\ remote.content.data_id # None
        /\ UrlConfigured
        /\ \E i \in AccountStanzas :
             LET base == accounts_conf.stanzas[i][2][URL] IN
             /\ requests_made[1].url = <<base, "/entities">>
             /\ result.value.payload =
                    <<SIGHTING_CREATED, base, remote.content.data_id[1]>>

\* a 201 answer with data.id "abc123" came back as status 201 and a message
\* holding "abc123"
C4_Witness ==
    /\ Invoked /\ Returned
    /\ remote = [kind |-> "response", status_code |-> 201,
                 content |-> CreatedBody]
    /\ result.value.status = 201
    /\ result.value.payload =
           <<SIGHTING_CREATED, "https://eiq.example/api", "abc123">>

\* C5: when the POST fails at the network level (connection refused,
\* timeout, malformed request), the failure is logged at error severity and
\* handle returns status 500 carrying that same transport error; it never
\* returns 2xx and makes no second attempt.
C5_TransportErrorCarried ==
    (Posted /\ remote.kind = "exc"
        /\ remote.exc \in {"ConnectionError", "ReadTimeout", "InvalidURL"}) =>
        /\ Returned
        /\ result.value.status = 500
        /\ result.value.payload = <<remote.exc>>
        /\ \E i \in 1 .. Len(log) : log[i][1] = "error"
        /\ Len(requests_made) = 1

\* C6: when the proxy is not enabled (flag other than "1", or no proxy
\* configuration because settings.conf or its proxy stanza is missing), a
\* call with a credential and all required fields (and a configured url)
\* still issues the POST, with no proxy; a proxy is applied only when the
\* flag equals "1".
C6_NoProxyUnlessEnabled ==
    /\ (Invoked /\ HasCredential /\ AllRequiredPresent /\ UrlConfigured
            /\ ~ProxyEnabled) =>
           (Len(requests_made) = 1 /\ requests_made[1].proxies = None)
    /\ (Posted /\ requests_made[1].proxies # None) => ProxyEnabled

\* C7: in every document handle sends, data.timestamp and meta.ingest_time
\* are the same instant and security_control.time.start_time is 00:00:00 UTC
\* of the calendar day of that instant, also when the UTC day changes
\* between the two clock readings.
C7_StartTimeIsMidnightOfTimestampDay ==
    Posted =>
        LET doc == requests_made[1].data IN
        /\ doc.timestamp = doc.ingest_time
        /\ doc.start_time = <<doc.timestamp[1], "T", "00:00:00.000000", "Z">>

\* C8: the resolvers never raise on missing data: get_url gives None when
\* accounts.conf is missing or has no non-default stanza, get_proxy gives
\* None when settings.conf is missing or has no proxy stanza.
C8_ResolversReturnAbsent ==
    Invoked =>
        /\ (~accounts_conf.exists \/ AccountStanzas = {}) =>
               get_url(accounts_conf) = Return(None)
        /\ ~ProxyConfigured => get_proxy(settings_conf) = None

\* C9: every call whose form carries a non-empty credential issues exactly
\* one POST to <base url>/entities, never zero and never more, whatever the
\* configuration; stated here for the calls that have every required field
\* and a configured url.
C9_ExactlyOnePost ==
    (Invoked /\ HasCredential /\ AllRequiredPresent /\ UrlConfigured) =>
        /\ Len(requests_made) = 1
        /\ requests_made[1].method = "post"
        /\ requests_made[1].url[2] = "/entities"

\* C10: whatever calls came before in the same process, the document sent
\* has every form-derived field (value, description, confidence, title,
\* tags, security-control type) equal to the current form's value.
C10_SentFieldsFromCurrentForm ==
    Posted =>
        LET doc == requests_made[1].data IN
        /\ AllRequiredPresent
        /\ doc.value = FormField(SIGHTING_VALUE)
        /\ doc.description = FormField(SIGHTING_DESC)
        /\ doc.confidence = FormField(CONFIDENCE_LEVEL)
        /\ doc.title = FormField(SIGHTING_TITLE)
        /\ doc.tags = <<FormField(SIGHTING_TAGS)>>
        /\ doc.type = FormField(SIGHTING_TYPE)

\* a second call in the same process found the template half filled by a
\* first call that faulted (value written, title never) and sent the second
\* submission's document
C10_Witness ==
    /\ invocations = 2
    /\ Posted
    /\ found.value = FieldText(SIGHTING_VALUE, "1")
    /\ found.title = <<>>
    /\ requests_made[1].data.title = FieldText(SIGHTING_TITLE, "2")
    /\ requests_made[1].data.tags = <<FieldText(SIGHTING_TAGS, "2")>>

=============================================================================
